---- MODULE Spec2Model ----
(***************************************************************************)
(* The three radar pipelines of LargeEventDashboard/backend/utils:         *)
(*   grib_processor.py  (generic GRIB2 -> PNG),                            *)
(*   mrms_processor.py  (MRMS GRIB2 -> regional map PNG),                  *)
(*   simple_radar.py    (Weather.gov station image enhancer).              *)
(* One run of one command-line program is one behaviour.  Angles are       *)
(* integers in micro-degrees (Deg(3) is 3.0 degrees), which represents     *)
(* every decimal the programs' defaults use (37.403147, -121.969814).      *)
(* An array is a record [shape, v]: shape is numpy's shape tuple, v the    *)
(* nested sequence of its elements.  The GRIB decoders, matplotlib,        *)
(* cartopy, PIL and requests are libraries: a call into one either         *)
(* returns or raises, and the model draws that outcome with \E.            *)
(***************************************************************************)
EXTENDS Integers, Sequences, FiniteSets

(* ------------------------------------------------------------------ *)
(* Units and bounds                                                    *)
(* ------------------------------------------------------------------ *)

\* d degrees in the model's unit (micro-degrees).
Deg(d) == d * 1000000

\* Largest number of grid rows / columns the decoders hand over.
MaxRows == 2
MaxCols == 3
\* Largest number of variables of a decoded dataset.
MaxVars == 3

\* mrms_processor.py main(): the defaults of lat, lon and radius_deg.
DefaultCenterLat == 37403147
DefaultCenterLon == -121969814
DefaultRadius == 3000000

(* ------------------------------------------------------------------ *)
(* numpy arrays                                                        *)
(* ------------------------------------------------------------------ *)

Ndim(a) == Len(a.shape)

\* Number of elements (numpy's .size).
Size(a) ==
  IF Ndim(a) = 1 THEN a.shape[1] ELSE a.shape[1] * a.shape[2]

Array1(s) == [shape |-> <<Len(s)>>, v |-> s]

Array2(rows, ncols) == [shape |-> <<Len(rows), ncols>>, v |-> rows]

\* np.meshgrid(lon1d, lat1d) returns (lons, lats), both of shape
\* (len(lat1d), len(lon1d)): lons repeats lon1d in every row, lats repeats
\* lat1d down every column.
MeshLons(lon1d, lat1d) ==
  Array2([r \in 1..Len(lat1d) |-> lon1d], Len(lon1d))

MeshLats(lon1d, lat1d) ==
  Array2([r \in 1..Len(lat1d) |-> [c \in 1..Len(lon1d) |-> lat1d[r]]],
         Len(lon1d))

\* The indices a boolean mask selects, in increasing order.
Indices(mask) ==
  LET F[i \in 0..Len(mask)] ==
        IF i = 0 THEN <<>>
        ELSE IF mask[i] THEN Append(F[i - 1], i) ELSE F[i - 1]
  IN F[Len(mask)]

\* a[np.ix_(row_mask, col_mask)] for a 2-D array a.
Ix(a, row_mask, col_mask) ==
  LET rs == Indices(row_mask)
      cs == Indices(col_mask)
  IN Array2([i \in 1..Len(rs) |-> [j \in 1..Len(cs) |-> a.v[rs[i]][cs[j]]]],
            Len(cs))

\* A crop that hands the longitudes back in the grid's 0-360 convention.
WrapLonNever(x) == x

\* np.where(a > 180, a - 360, a), elementwise on a 1-D or 2-D array.
WrapLon(x) == IF x > Deg(180) THEN x - Deg(360) ELSE x

WhereWrap(a) ==
  IF Ndim(a) = 1
  THEN [shape |-> a.shape, v |-> [i \in 1..Len(a.v) |-> WrapLon(a.v[i])]]
  ELSE [shape |-> a.shape,
        v |-> [r \in 1..Len(a.v) |->
                 [c \in 1..Len(a.v[r]) |-> WrapLon(a.v[r][c])]]]

(* ------------------------------------------------------------------ *)
(* mrms_processor.py: crop_region                                      *)
(* ------------------------------------------------------------------ *)

\* A crop that compares the caller's -180..180 longitude with the grid's
\* 0-360 longitudes as it is.
GridCenterLonNoMod(center_lon) == center_lon

\* center_lon % 360: Python's % with a positive modulus is never negative,
\* and neither is TLA+'s.
GridCenterLon(center_lon) == center_lon % Deg(360)

\* lats[:, 0] and lons[0, :]
FirstCol(a) == [r \in 1..Len(a.v) |-> a.v[r][1]]
FirstRow(a) == a.v[1]

RowMask(lats, center_lat, radius_deg) ==
  LET lat_min == center_lat - radius_deg
      lat_max == center_lat + radius_deg
      lat_col == FirstCol(lats)
  IN [r \in 1..Len(lat_col) |-> lat_col[r] >= lat_min /\ lat_col[r] <= lat_max]

ColMask(lons, center_lon, radius_deg) ==
  LET lon_min == GridCenterLon(center_lon) - radius_deg
      lon_max == GridCenterLon(center_lon) + radius_deg
      lon_row == FirstRow(lons)
  IN [c \in 1..Len(lon_row) |-> lon_row[c] >= lon_min /\ lon_row[c] <= lon_max]

crop_region(data, lats, lons, center_lat, center_lon, radius_deg) ==
  LET row_mask == RowMask(lats, center_lat, radius_deg)
      col_mask == ColMask(lons, center_lon, radius_deg)
      data_c == IF Ndim(lats) = 2 THEN Ix(data, row_mask, col_mask) ELSE data
      lats_c == IF Ndim(lats) = 2 THEN Ix(lats, row_mask, col_mask) ELSE lats
      lons_c == IF Ndim(lats) = 2 THEN Ix(lons, row_mask, col_mask) ELSE lons
  IN [data |-> data_c, lats |-> lats_c, lons |-> WhereWrap(lons_c)]

(* ------------------------------------------------------------------ *)
(* grib_processor.py: variable resolution, coordinates, collapse, crop *)
(* ------------------------------------------------------------------ *)

\* The priority list of line 84 and the coordinate names of line 91.
PriorityNames ==
  <<"unknown", "refc", "REFC", "reflectivity", "dBZ", "Reflectivity">>

\* The coordinate names with time forgotten.
CoordVarsNoTime == {"latitude", "longitude", "lat", "lon", "x", "y"}

CoordVars == {"latitude", "longitude", "lat", "lon", "x", "y", "time"}

SeqRange(s) == {s[i] : i \in 1..Len(s)}

\* Lines 83-87: the first name of the priority list that is in ds.variables.
\* found = FALSE stands for var_name = None.
FirstPriority(variables) ==
  LET F[i \in 1..(Len(PriorityNames) + 1)] ==
        IF i > Len(PriorityNames) THEN [found |-> FALSE, name |-> ""]
        ELSE IF PriorityNames[i] \in SeqRange(variables)
             THEN [found |-> TRUE, name |-> PriorityNames[i]]
             ELSE F[i + 1]
  IN F[1]

\* Line 92: [v for v in ds.variables if v not in coord_vars]
IsDataVar(v) == v \notin CoordVars

DataVars(variables) == SelectSeq(variables, IsDataVar)

\* Lines 83-96.  raised = TRUE is the ValueError of line 96, whose message
\* lists list(ds.variables).
ResolveVariable(variables) ==
  LET p == FirstPriority(variables)
      data_vars == DataVars(variables)
  IN IF p.found
     THEN [raised |-> FALSE, name |-> p.name, listed |-> <<>>]
     ELSE IF data_vars # <<>>
          THEN [raised |-> FALSE, name |-> data_vars[1], listed |-> <<>>]
          ELSE [raised |-> TRUE, name |-> "", listed |-> variables]

\* np.linspace(a, b, n)
Linspace(a, b, n) ==
  IF n = 1 THEN <<a>>
  ELSE [i \in 1..n |-> a + ((i - 1) * (b - a)) \div (n - 1)]

\* Lines 101-111: the coordinates of the dataset, or the placeholder grid
\* over 20..55 N, -130..-60 E sized by the data's trailing two dimensions.
HasCoordPair(variables) ==
  \/ {"latitude", "longitude"} \subseteq SeqRange(variables)
  \/ {"lat", "lon"} \subseteq SeqRange(variables)

GetLat(ds) ==
  IF HasCoordPair(ds.variables) THEN ds.lat
  ELSE Array1(Linspace(Deg(20), Deg(55), ds.data.shape[Ndim(ds.data) - 1]))

GetLon(ds) ==
  IF HasCoordPair(ds.variables) THEN ds.lon
  ELSE Array1(Linspace(Deg(0 - 130), Deg(0 - 60), ds.data.shape[Ndim(ds.data)]))

\* Lines 117-118: refl_data[0] if shape[0] == 1 else refl_data[-1]
Collapse(a) ==
  IF Ndim(a) > 2
  THEN [shape |-> Tail(a.shape),
        v |-> IF a.shape[1] = 1 THEN a.v[1] ELSE a.v[Len(a.v)]]
  ELSE a

\* (lat >= lo) & (lat <= hi), elementwise, as an array of booleans.
InRange(a, lo, hi) ==
  IF Ndim(a) = 1
  THEN [shape |-> a.shape,
        v |-> [i \in 1..Len(a.v) |-> a.v[i] >= lo /\ a.v[i] <= hi]]
  ELSE [shape |-> a.shape,
        v |-> [r \in 1..Len(a.v) |->
                 [c \in 1..Len(a.v[r]) |-> a.v[r][c] >= lo /\ a.v[r][c] <= hi]]]

\* a[mask] for a 2-D array and a 2-D boolean mask of the same shape: the
\* selected elements in row-major order, as a 1-D array.
BoolSelect(a, mask) ==
  LET RowSel(r) ==
        LET cs == Indices(mask[r])
        IN [j \in 1..Len(cs) |-> a.v[r][cs[j]]]
      F[r \in 0..Len(a.v)] ==
        IF r = 0 THEN <<>> ELSE F[r - 1] \o RowSel(r)
  IN Array1(F[Len(a.v)])

\* Lines 136-148.  Numpy raises IndexError when a boolean index does not
\* match the indexed axis.  (A refl_data of three dimensions is indexed on
\* its leading axes; these match the masks only when the leading dimension
\* equals the number of rows and the number of rows the number of columns,
\* which no grid decoded here has.)
BoxCropRaises(refl, lat, lon) ==
  IF Ndim(lat) = 1
  THEN \/ Ndim(refl) # 2
       \/ refl.shape[1] # lat.shape[1]
       \/ Ndim(lon) # 1
       \/ refl.shape[2] # lon.shape[1]
  ELSE \/ lat.shape # lon.shape
       \/ refl.shape # lat.shape

BoxCrop(refl, lat, lon, lat_bounds, lon_bounds) ==
  LET lat_mask == InRange(lat, lat_bounds[1], lat_bounds[2])
      lon_mask == InRange(lon, lon_bounds[1], lon_bounds[2])
  IN IF Ndim(lat) = 1
     THEN [data |-> Ix(refl, lat_mask.v, lon_mask.v),
           lats |-> Array1([i \in 1..Len(Indices(lat_mask.v)) |->
                              lat.v[Indices(lat_mask.v)[i]]]),
           lons |-> Array1([i \in 1..Len(Indices(lon_mask.v)) |->
                              lon.v[Indices(lon_mask.v)[i]]])]
     ELSE LET mask == [r \in 1..Len(lat.v) |->
                         [c \in 1..Len(lat.v[r]) |->
                            lat_mask.v[r][c] /\ lon_mask.v[r][c]]]
          IN [data |-> BoolSelect(refl, mask),
              lats |-> BoolSelect(lat, mask),
              lons |-> BoolSelect(lon, mask)]

(* ------------------------------------------------------------------ *)
(* Library outcomes                                                    *)
(* ------------------------------------------------------------------ *)

\* Axes.pcolormesh(X, Y, C, shading='auto'): C has to be 2-D, and X and Y
\* have to give one coordinate per cell (or per cell corner).  What the
\* plotting library does with a zero-size C is not decided in this
\* repository: it draws nothing, or it raises.  Nor is what it does with a
\* 3-D C whose last dimension has length 3 or 4: releases that know RGB(A)
\* colour arrays take it as M x N colours (and may still reject the values),
\* older releases raise.  Any other C raises.
CoordsFit(X, Y, C) ==
  IF Ndim(X) = 1 /\ Ndim(Y) = 1
  THEN /\ X.shape[1] \in {C.shape[2], C.shape[2] + 1}
       /\ Y.shape[1] \in {C.shape[1], C.shape[1] + 1}
  ELSE /\ Ndim(X) = 2
       /\ X.shape = Y.shape
       /\ \/ X.shape = C.shape
          \/ X.shape = <<C.shape[1] + 1, C.shape[2] + 1>>

PcolormeshOutcomes(X, Y, C) ==
  IF Ndim(C) = 2
  THEN IF Size(C) = 0 THEN {"ok", "raise"}
       ELSE IF CoordsFit(X, Y, C) THEN {"ok"} ELSE {"raise"}
  ELSE IF Ndim(C) = 3 /\ C.shape[3] \in {3, 4} /\ CoordsFit(X, Y, C)
       THEN {"ok", "raise"}
       ELSE {"raise"}

\* A call that reads a file, the network or writes a file returns or raises.
IoOutcomes == {"ok", "raise"}

(* ------------------------------------------------------------------ *)
(* Inputs: command lines and file contents                             *)
(* ------------------------------------------------------------------ *)

NoArray == [shape |-> <<0>>, v |-> <<>>]

NoGrid == [data |-> NoArray, lats |-> NoArray, lons |-> NoArray]

NoDataset ==
  [variables |-> <<>>, lat |-> NoArray, lon |-> NoArray, data |-> NoArray]

NoVar == [raised |-> FALSE, name |-> "", listed |-> <<>>]

NoDecode == [primary |-> "no", fallback |-> "no"]

\* A data array of shape lead \o <<nr, nc>> whose cells are tagged with their
\* own index, so that a cell can be told from every other after a collapse
\* or a crop.
TagRows(prefix, nr, nc) ==
  [r \in 1..nr |-> [c \in 1..nc |-> prefix \o <<r, c>>]]

DataArray(lead, nr, nc) ==
  IF Len(lead) = 0
  THEN [shape |-> <<nr, nc>>, v |-> TagRows(<<>>, nr, nc)]
  ELSE IF Len(lead) = 1
  THEN [shape |-> lead \o <<nr, nc>>,
        v |-> [t \in 1..lead[1] |-> TagRows(<<t>>, nr, nc)]]
  ELSE [shape |-> lead \o <<nr, nc>>,
        v |-> [s \in 1..lead[1] |->
                 [t \in 1..lead[2] |-> TagRows(<<s, t>>, nr, nc)]]]

\* What a GRIB2 file read by grib_processor.py may decode to: the names in
\* ds.variables in their order, 1-D or 2-D coordinates, and data with or
\* without leading (time, level) dimensions.
GribVarLists ==
  { <<"unknown", "latitude", "longitude", "time">>,
    <<"latitude", "longitude", "time">>,
    <<"time", "step", "t2m", "lat", "lon">>,
    <<"x", "y", "refc">> }

GribLatAxis == <<Deg(30), Deg(35)>>
GribLonAxis == <<Deg(0 - 100), Deg(0 - 95), Deg(0 - 90)>>

GribLeads == { <<>>, <<1>>, <<2>>, <<2, 1>> }

GribDatasets ==
  { [variables |-> vl,
     lat |-> IF nd = 1 THEN Array1(GribLatAxis)
             ELSE MeshLats(GribLonAxis, GribLatAxis),
     lon |-> IF nd = 1 THEN Array1(GribLonAxis)
             ELSE MeshLons(GribLonAxis, GribLatAxis),
     data |-> DataArray(lead, Len(GribLatAxis), Len(GribLonAxis))] :
    vl \in GribVarLists, nd \in {1, 2}, lead \in GribLeads }

\* The numeric arguments after the two paths: none, too few to be read,
\* a box inside the grid, a box around the whole grid, a box outside of it.
GribNums ==
  { <<>>,
    <<Deg(30), Deg(40)>>,
    <<Deg(28), Deg(32), Deg(0 - 96), Deg(0 - 89)>>,
    <<Deg(25), Deg(40), Deg(0 - 105), Deg(0 - 85)>>,
    <<Deg(60), Deg(70), Deg(0 - 100), Deg(0 - 90)>> }

GribArgvs ==
  { [paths |-> n, gz |-> FALSE, nums |-> <<>>, numsOk |-> TRUE] : n \in {0, 1} }
  \cup
  { [paths |-> 2, gz |-> g, nums |-> ns, numsOk |-> ok] :
      g \in BOOLEAN, ns \in GribNums, ok \in BOOLEAN }

(* ------------------------------------------------------------------ *)
(* State                                                               *)
(* ------------------------------------------------------------------ *)

VARIABLES
  prog,        \* which program runs: "grib", "mrms" or "station"
  pc,          \* the statement the run is at
  argv,        \* the command line
  lat_bounds,  \* grib: <<>> for None, else <<min_lat, max_lat>>
  lon_bounds,  \* grib: <<>> for None, else <<min_lon, max_lon>>
  center,      \* mrms: [lat, lon, radius]
  temp_file,   \* grib: "none" (never created), "exists" or "removed"
  ds,          \* the decoded dataset
  dsOpen,      \* an xarray dataset handle is open
  grbsOpen,    \* a pygrib file handle is open
  figOpen,     \* a matplotlib figure is open
  decode,      \* what became of the primary and of the fallback decode
  var,         \* grib: the outcome of variable resolution
  grid,        \* the reflectivity and coordinate arrays in hand
  full,        \* history: the arrays as decoded, before any crop
  cropped,     \* the crop step has run
  ret,         \* the pipeline function's return value: "none", "true", "false"
  failedAt,    \* the step whose exception ended the pipeline, or "none"
  uncaught,    \* an exception left the entry point uncaught
  pngSaved,    \* savefig has written the output PNG
  exitCode     \* the process's exit code, -1 while it runs

vars ==
  <<prog, pc, argv, lat_bounds, lon_bounds, center, temp_file, ds, dsOpen,
    grbsOpen, figOpen, decode, var, grid, full, cropped, ret, failedAt,
    uncaught, pngSaved, exitCode>>

\* len(sys.argv)
Argc == 1 + argv.paths + Len(argv.nums)

NoCenter == [lat |-> 0, lon |-> 0, radius |-> 0]

InitRest ==
  /\ pc = "start"
  /\ lat_bounds = <<>>
  /\ lon_bounds = <<>>
  /\ center = NoCenter
  /\ temp_file = "none"
  /\ ds = NoDataset
  /\ dsOpen = FALSE
  /\ grbsOpen = FALSE
  /\ figOpen = FALSE
  /\ decode = NoDecode
  /\ var = NoVar
  /\ grid = NoGrid
  /\ full = NoGrid
  /\ cropped = FALSE
  /\ ret = "none"
  /\ failedAt = "none"
  /\ uncaught = FALSE
  /\ pngSaved = FALSE
  /\ exitCode = -1

(* ------------------------------------------------------------------ *)
(* grib_processor.py                                                   *)
(* ------------------------------------------------------------------ *)

\* An exception that no handler catches: the interpreter prints the
\* traceback and the process ends with exit code 1.
Uncaught(where) ==
  /\ pc' = "exited"
  /\ uncaught' = TRUE
  /\ failedAt' = where
  /\ exitCode' = 1

\* Lines 188-192: except Exception: print, traceback, return False.
GribExcept(where) ==
  /\ pc' = "grib_returned"
  /\ ret' = "false"
  /\ failedAt' = where

\* An exit that ignores the pipeline's result.
ExitCodeAlwaysZero(success) == 0

\* Line 210: sys.exit(0 if success else 1)
ExitCodeOf(success) == IF success THEN 0 ELSE 1

\* Lines 194-207: the usage check and the parsing of the crop bounds.
GribMain ==
  /\ prog = "grib" /\ pc = "start"
  /\ IF Argc < 3
     THEN /\ pc' = "exited"
          /\ exitCode' = 1
          /\ UNCHANGED <<lat_bounds, lon_bounds, uncaught, failedAt>>
     ELSE IF Argc >= 7 /\ ~argv.numsOk
     THEN /\ Uncaught("args")
          /\ UNCHANGED <<lat_bounds, lon_bounds>>
     ELSE /\ pc' = "grib_decompress"
          /\ lat_bounds' = IF Argc >= 7 THEN <<argv.nums[1], argv.nums[2]>>
                           ELSE <<>>
          /\ lon_bounds' = IF Argc >= 7 THEN <<argv.nums[3], argv.nums[4]>>
                           ELSE <<>>
          /\ UNCHANGED <<exitCode, uncaught, failedAt>>
  /\ UNCHANGED <<prog, argv, full, center, temp_file, ds, dsOpen, grbsOpen, figOpen,
                 decode, var, grid, cropped, ret, pngSaved>>

\* Lines 60-69.  gzip.open may raise before the temporary file exists
\* (the input cannot be opened), and copyfileobj may raise after open() has
\* created it (the input is no gzip stream).
GribDecompress ==
  /\ prog = "grib" /\ pc = "grib_decompress"
  /\ IF argv.gz
     THEN \E o \in {"ok", "raise_before", "raise_after"} :
            /\ temp_file' = IF o = "raise_before" THEN "none" ELSE "exists"
            /\ IF o = "ok"
               THEN pc' = "grib_open" /\ UNCHANGED <<ret, failedAt>>
               ELSE GribExcept("decompress")
     ELSE /\ pc' = "grib_open"
          /\ UNCHANGED <<temp_file, ret, failedAt>>
  /\ UNCHANGED <<prog, argv, full, lat_bounds, lon_bounds, center, ds, dsOpen,
                 grbsOpen, figOpen, decode, var, grid, cropped, uncaught,
                 pngSaved, exitCode>>

\* The primary decode without the inner try: its failure goes straight to
\* the handler of line 188.
GribOpenPrimaryNoFallback ==
  /\ prog = "grib" /\ pc = "grib_open"
  /\ \/ \E d \in GribDatasets :
          /\ ds' = d
          /\ dsOpen' = TRUE
          /\ decode' = [decode EXCEPT !.primary = "ok"]
          /\ pc' = "grib_resolve"
          /\ UNCHANGED <<ret, failedAt>>
     \/ /\ decode' = [decode EXCEPT !.primary = "failed"]
        /\ GribExcept("decode")
        /\ UNCHANGED <<ds, dsOpen>>
  /\ UNCHANGED <<prog, argv, full, lat_bounds, lon_bounds, center, temp_file,
                 grbsOpen, figOpen, var, grid, cropped, uncaught, pngSaved,
                 exitCode>>

\* Line 76: the primary decode.  The bare except of line 77 catches its
\* failure and leads to the fallback.
GribOpenPrimary ==
  /\ prog = "grib" /\ pc = "grib_open"
  /\ \/ \E d \in GribDatasets :
          /\ ds' = d
          /\ dsOpen' = TRUE
          /\ decode' = [decode EXCEPT !.primary = "ok"]
          /\ pc' = "grib_resolve"
     \/ /\ decode' = [decode EXCEPT !.primary = "failed"]
        /\ pc' = "grib_open_fallback"
        /\ UNCHANGED <<ds, dsOpen>>
  /\ UNCHANGED <<prog, argv, full, lat_bounds, lon_bounds, center, temp_file,
                 grbsOpen, figOpen, var, grid, cropped, ret, failedAt,
                 uncaught, pngSaved, exitCode>>

\* Lines 79-80: the fallback decode, filtered by typeOfLevel = surface.
GribOpenFallback ==
  /\ prog = "grib" /\ pc = "grib_open_fallback"
  /\ \/ \E d \in GribDatasets :
          /\ ds' = d
          /\ dsOpen' = TRUE
          /\ decode' = [decode EXCEPT !.fallback = "ok"]
          /\ pc' = "grib_resolve"
          /\ UNCHANGED <<ret, failedAt>>
     \/ /\ decode' = [decode EXCEPT !.fallback = "failed"]
        /\ GribExcept("decode")
        /\ UNCHANGED <<ds, dsOpen>>
  /\ UNCHANGED <<prog, argv, full, lat_bounds, lon_bounds, center, temp_file,
                 grbsOpen, figOpen, var, grid, cropped, uncaught, pngSaved,
                 exitCode>>

\* Lines 82-98: variable resolution.
GribResolveVariable ==
  /\ prog = "grib" /\ pc = "grib_resolve"
  /\ var' = ResolveVariable(ds.variables)
  /\ IF var'.raised
     THEN GribExcept("variable")
     ELSE pc' = "grib_extract" /\ UNCHANGED <<ret, failedAt>>
  /\ UNCHANGED <<prog, argv, full, lat_bounds, lon_bounds, center, temp_file, ds,
                 dsOpen, grbsOpen, figOpen, decode, grid, cropped, uncaught,
                 pngSaved, exitCode>>

\* Lines 99-125: the data of the chosen variable, the coordinates, the
\* collapse of leading dimensions.  (The masking of lines 124-125 hides
\* values and leaves shapes and positions as they are.)
GribExtract ==
  /\ prog = "grib" /\ pc = "grib_extract"
  /\ grid' = [data |-> Collapse(ds.data), lats |-> GetLat(ds),
              lons |-> GetLon(ds)]
  /\ full' = grid'
  /\ pc' = "grib_figure"
  /\ UNCHANGED <<prog, argv, lat_bounds, lon_bounds, center, temp_file, ds,
                 dsOpen, grbsOpen, figOpen, decode, var, cropped, ret,
                 failedAt, uncaught, pngSaved, exitCode>>

\* Lines 127-131: plt.subplots and the colormap.
GribCreateFigure ==
  /\ prog = "grib" /\ pc = "grib_figure"
  /\ figOpen' = TRUE
  /\ pc' = "grib_plot"
  /\ UNCHANGED <<prog, argv, full, lat_bounds, lon_bounds, center, temp_file, ds,
                 dsOpen, grbsOpen, decode, var, grid, cropped, ret, failedAt,
                 uncaught, pngSaved, exitCode>>

\* Lines 133-173: the crop (when both bounds are given) and pcolormesh.
GribPlot ==
  /\ prog = "grib" /\ pc = "grib_plot"
  /\ IF lat_bounds # <<>> /\ lon_bounds # <<>>
     THEN IF BoxCropRaises(grid.data, grid.lats, grid.lons)
          THEN /\ GribExcept("crop")
               /\ UNCHANGED <<grid, cropped>>
          ELSE /\ grid' = BoxCrop(grid.data, grid.lats, grid.lons,
                                  lat_bounds, lon_bounds)
               /\ cropped' = TRUE
               /\ \E o \in PcolormeshOutcomes(grid'.lons, grid'.lats, grid'.data) :
                    IF o = "ok"
                    THEN pc' = "grib_save" /\ UNCHANGED <<ret, failedAt>>
                    ELSE GribExcept("render")
     ELSE /\ UNCHANGED <<grid, cropped>>
          /\ \E o \in PcolormeshOutcomes(
                        IF Ndim(grid.lats) = 1
                        THEN MeshLons(grid.lons.v, grid.lats.v) ELSE grid.lons,
                        IF Ndim(grid.lats) = 1
                        THEN MeshLats(grid.lons.v, grid.lats.v) ELSE grid.lats,
                        grid.data) :
               IF o = "ok"
               THEN pc' = "grib_save" /\ UNCHANGED <<ret, failedAt>>
               ELSE GribExcept("render")
  /\ UNCHANGED <<prog, argv, full, lat_bounds, lon_bounds, center, temp_file, ds,
                 dsOpen, grbsOpen, figOpen, decode, var, uncaught, pngSaved,
                 exitCode>>

\* Lines 175-186: savefig, plt.close, ds.close, removal of the temporary
\* file, return True.  savefig raises when the output cannot be written, and
\* then none of the statements after it runs.
GribSave ==
  /\ prog = "grib" /\ pc = "grib_save"
  /\ \E o \in IoOutcomes :
       IF o = "ok"
       THEN /\ pngSaved' = TRUE
            /\ figOpen' = FALSE
            /\ dsOpen' = FALSE
            /\ temp_file' = IF temp_file = "exists" THEN "removed" ELSE temp_file
            /\ ret' = "true"
            /\ pc' = "grib_returned"
            /\ UNCHANGED failedAt
       ELSE /\ GribExcept("save")
            /\ UNCHANGED <<pngSaved, figOpen, dsOpen, temp_file>>
  /\ UNCHANGED <<prog, argv, full, lat_bounds, lon_bounds, center, ds, grbsOpen,
                 decode, var, grid, cropped, uncaught, exitCode>>

\* Lines 209-210: success = process_grib2_file(...); sys.exit(...)
GribExit ==
  /\ prog = "grib" /\ pc = "grib_returned"
  /\ exitCode' = ExitCodeOf(ret = "true")
  /\ pc' = "exited"
  /\ UNCHANGED <<prog, argv, full, lat_bounds, lon_bounds, center, temp_file, ds,
                 dsOpen, grbsOpen, figOpen, decode, var, grid, cropped, ret,
                 failedAt, uncaught, pngSaved>>

GribNext ==
  \/ GribMain \/ GribDecompress \/ GribOpenPrimary \/ GribOpenFallback
  \/ GribResolveVariable \/ GribExtract \/ GribCreateFigure \/ GribPlot
  \/ GribSave \/ GribExit

(* ------------------------------------------------------------------ *)
(* mrms_processor.py                                                   *)
(* ------------------------------------------------------------------ *)

\* Longitudes (0-360 convention) and latitudes a decoded MRMS grid is
\* built from, in degrees.
LonVals == {0, 1, 179, 180, 181, 240, 250, 359}
LatVals == {35, 37, 40}

\* The strictly increasing sequences of 1..n values of S, in micro-degrees.
Axes(S, n) ==
  UNION { { [i \in 1..k |-> Deg(s[i])] :
            s \in { t \in [1..k -> S] : \A i \in 1..(k - 1) : t[i] < t[i + 1] } } :
          k \in 1..n }

\* A regular grid is the mesh of its two axes (grb.latlons() of a regular
\* lat/lon GRIB message, or np.meshgrid on line 65).  A curvilinear grid
\* (line 67, a dataset whose coordinates are 2-D) has rows that do not share
\* their longitudes and columns that do not share their latitudes.
CurviLats(lon1d, lat1d) ==
  Array2([r \in 1..Len(lat1d) |->
            [c \in 1..Len(lon1d) |-> lat1d[r] + Deg(c - 1)]], Len(lon1d))

CurviLons(lon1d, lat1d) ==
  Array2([r \in 1..Len(lat1d) |->
            [c \in 1..Len(lon1d) |-> (lon1d[c] + Deg(r - 1)) % Deg(360)]],
         Len(lon1d))

MrmsGrids ==
  { [data |-> DataArray(<<>>, Len(la), Len(lo)),
     lats |-> IF k = "regular" THEN MeshLats(lo, la) ELSE CurviLats(lo, la),
     lons |-> IF k = "regular" THEN MeshLons(lo, la) ELSE CurviLons(lo, la)] :
    la \in Axes(LatVals, MaxRows), lo \in Axes(LonVals, MaxCols),
    k \in {"regular", "curvilinear"} }

\* The numeric arguments [lat] [lon] [radius_deg] after the two paths.
MrmsNums ==
  { <<>>,
    <<Deg(46)>>,
    <<Deg(46), Deg(0 - 179)>>,
    <<DefaultCenterLat, DefaultCenterLon, Deg(1)>>,
    <<Deg(60), Deg(10), Deg(3)>> }

MrmsArgvs ==
  { [paths |-> n, gz |-> FALSE, nums |-> <<>>, numsOk |-> TRUE] : n \in {0, 1} }
  \cup
  { [paths |-> 2, gz |-> FALSE, nums |-> ns, numsOk |-> ok] :
      ns \in MrmsNums, ok \in BOOLEAN }

\* Lines 247-258: the usage check, float() of the optional arguments and
\* their defaults.
MrmsMain ==
  /\ prog = "mrms" /\ pc = "start"
  /\ IF Argc < 3
     THEN /\ pc' = "exited"
          /\ exitCode' = 1
          /\ UNCHANGED <<center, uncaught, failedAt>>
     ELSE IF Argc > 3 /\ ~argv.numsOk
     THEN /\ Uncaught("args")
          /\ UNCHANGED center
     ELSE /\ pc' = "mrms_pygrib_open"
          /\ center' =
               [lat |-> IF Argc > 3 THEN argv.nums[1] ELSE DefaultCenterLat,
                lon |-> IF Argc > 4 THEN argv.nums[2] ELSE DefaultCenterLon,
                radius |-> IF Argc > 5 THEN argv.nums[3] ELSE DefaultRadius]
          /\ UNCHANGED <<exitCode, uncaught, failedAt>>
  /\ UNCHANGED <<prog, argv, full, lat_bounds, lon_bounds, temp_file, ds, dsOpen,
                 grbsOpen, figOpen, decode, var, grid, cropped, ret, pngSaved>>

\* load_grib2, lines 28-30 and 49-51: import pygrib; pygrib.open.  Only an
\* ImportError is caught; any other exception leaves load_grib2 and main.
MrmsPygribOpen ==
  /\ prog = "mrms" /\ pc = "mrms_pygrib_open"
  /\ \E o \in {"ok", "import_error", "raise"} :
       /\ grbsOpen' = (o = "ok")
       /\ decode' = [decode EXCEPT !.primary =
                       IF o = "ok" THEN "no"
                       ELSE IF o = "import_error" THEN "unavailable"
                       ELSE "failed"]
       /\ IF o = "ok"
          THEN pc' = "mrms_pygrib_read" /\ UNCHANGED <<uncaught, failedAt, exitCode>>
          ELSE IF o = "import_error"
          THEN pc' = "mrms_xarray_open" /\ UNCHANGED <<uncaught, failedAt, exitCode>>
          ELSE Uncaught("load")
  /\ UNCHANGED <<prog, argv, full, lat_bounds, lon_bounds, center, temp_file, ds,
                 dsOpen, figOpen, var, grid, cropped, ret, pngSaved>>

\* load_grib2, lines 31-47: the first message, its values and coordinates,
\* grbs.close().  A file without a message, or one whose packing the
\* library cannot decode, raises before grbs.close() is reached.
MrmsPygribRead ==
  /\ prog = "mrms" /\ pc = "mrms_pygrib_read"
  /\ \/ \E g \in MrmsGrids :
          /\ grid' = g
          /\ full' = g
          /\ grbsOpen' = FALSE
          /\ decode' = [decode EXCEPT !.primary = "ok"]
          /\ pc' = "mrms_crop"
          /\ UNCHANGED <<uncaught, failedAt, exitCode>>
     \/ /\ decode' = [decode EXCEPT !.primary = "failed"]
        /\ Uncaught("load")
        /\ UNCHANGED <<grid, full, grbsOpen>>
  /\ UNCHANGED <<prog, argv, lat_bounds, lon_bounds, center, temp_file, ds,
                 dsOpen, figOpen, var, cropped, ret, pngSaved>>

\* _load_grib2_xarray, lines 56-57: xr.open_dataset.
MrmsXarrayOpen ==
  /\ prog = "mrms" /\ pc = "mrms_xarray_open"
  /\ \E o \in IoOutcomes :
       /\ dsOpen' = (o = "ok")
       /\ IF o = "ok"
          THEN /\ pc' = "mrms_xarray_read"
               /\ UNCHANGED <<decode, uncaught, failedAt, exitCode>>
          ELSE /\ decode' = [decode EXCEPT !.fallback = "failed"]
               /\ Uncaught("load")
  /\ UNCHANGED <<prog, argv, full, lat_bounds, lon_bounds, center, temp_file, ds,
                 grbsOpen, figOpen, var, grid, cropped, ret, pngSaved>>

\* _load_grib2_xarray, lines 59-77: the first data variable, the
\* coordinates, ds.close().  A dataset without data variables or without
\* latitude/longitude raises before ds.close() is reached.
MrmsXarrayRead ==
  /\ prog = "mrms" /\ pc = "mrms_xarray_read"
  /\ \/ \E g \in MrmsGrids :
          /\ grid' = g
          /\ full' = g
          /\ dsOpen' = FALSE
          /\ decode' = [decode EXCEPT !.fallback = "ok"]
          /\ pc' = "mrms_crop"
          /\ UNCHANGED <<uncaught, failedAt, exitCode>>
     \/ /\ decode' = [decode EXCEPT !.fallback = "failed"]
        /\ Uncaught("load")
        /\ UNCHANGED <<grid, full, dsOpen>>
  /\ UNCHANGED <<prog, argv, lat_bounds, lon_bounds, center, temp_file, ds,
                 grbsOpen, figOpen, var, cropped, ret, pngSaved>>

\* main, lines 264-265: data, lats, lons = crop_region(...)
MrmsCrop ==
  /\ prog = "mrms" /\ pc = "mrms_crop"
  /\ grid' = crop_region(grid.data, grid.lats, grid.lons,
                         center.lat, center.lon, center.radius)
  /\ cropped' = TRUE
  /\ pc' = "mrms_figure"
  /\ UNCHANGED <<prog, argv, full, lat_bounds, lon_bounds, center, temp_file, ds,
                 dsOpen, grbsOpen, figOpen, decode, var, ret, failedAt,
                 uncaught, pngSaved, exitCode>>

\* plot_mrms, lines 166-186: the figure, the projection, the map features.
MrmsCreateFigure ==
  /\ prog = "mrms" /\ pc = "mrms_figure"
  /\ figOpen' = TRUE
  /\ pc' = "mrms_render"
  /\ UNCHANGED <<prog, argv, full, lat_bounds, lon_bounds, center, temp_file, ds,
                 dsOpen, grbsOpen, decode, var, grid, cropped, ret, failedAt,
                 uncaught, pngSaved, exitCode>>

\* plot_mrms, lines 189-232: pcolormesh, marker, colorbar, title.
MrmsRender ==
  /\ prog = "mrms" /\ pc = "mrms_render"
  /\ \E o \in PcolormeshOutcomes(grid.lons, grid.lats, grid.data) :
       IF o = "ok"
       THEN pc' = "mrms_save" /\ UNCHANGED <<uncaught, failedAt, exitCode>>
       ELSE Uncaught("render")
  /\ UNCHANGED <<prog, argv, full, lat_bounds, lon_bounds, center, temp_file, ds,
                 dsOpen, grbsOpen, figOpen, decode, var, grid, cropped, ret,
                 pngSaved>>

\* plot_mrms, lines 235-240: fig.savefig, plt.close(fig).
MrmsSave ==
  /\ prog = "mrms" /\ pc = "mrms_save"
  /\ \E o \in IoOutcomes :
       IF o = "ok"
       THEN /\ pngSaved' = TRUE
            /\ figOpen' = FALSE
            /\ pc' = "mrms_done"
            /\ UNCHANGED <<uncaught, failedAt, exitCode>>
       ELSE /\ Uncaught("save")
            /\ UNCHANGED <<pngSaved, figOpen>>
  /\ UNCHANGED <<prog, argv, full, lat_bounds, lon_bounds, center, temp_file, ds,
                 dsOpen, grbsOpen, decode, var, grid, cropped, ret>>

\* main, lines 271-275: main returns and the interpreter exits with 0.
MrmsExit ==
  /\ prog = "mrms" /\ pc = "mrms_done"
  /\ exitCode' = 0
  /\ pc' = "exited"
  /\ UNCHANGED <<prog, argv, full, lat_bounds, lon_bounds, center, temp_file, ds,
                 dsOpen, grbsOpen, figOpen, decode, var, grid, cropped, ret,
                 failedAt, uncaught, pngSaved>>

MrmsNext ==
  \/ MrmsMain \/ MrmsPygribOpen \/ MrmsPygribRead \/ MrmsXarrayOpen
  \/ MrmsXarrayRead \/ MrmsCrop \/ MrmsCreateFigure \/ MrmsRender
  \/ MrmsSave \/ MrmsExit

(* ------------------------------------------------------------------ *)
(* simple_radar.py                                                     *)
(* ------------------------------------------------------------------ *)

StationArgvs ==
  { [paths |-> n, gz |-> FALSE, nums |-> <<>>, numsOk |-> TRUE] : n \in 0..2 }

\* Lines 76-80: except Exception: print, traceback, return False.
StationExcept(where) ==
  /\ pc' = "station_returned"
  /\ ret' = "false"
  /\ failedAt' = where

\* Lines 82-88: the usage check.
StationMain ==
  /\ prog = "station" /\ pc = "start"
  /\ IF Argc < 3
     THEN pc' = "exited" /\ exitCode' = 1
     ELSE pc' = "station_fetch" /\ UNCHANGED exitCode
  /\ UNCHANGED <<prog, argv, full, lat_bounds, lon_bounds, center, temp_file, ds,
                 dsOpen, grbsOpen, figOpen, decode, var, grid, cropped, ret,
                 failedAt, uncaught, pngSaved>>

\* Lines 46-50: requests.get with a 15 s timeout and raise_for_status.
StationFetch ==
  /\ prog = "station" /\ pc = "station_fetch"
  /\ \E o \in IoOutcomes :
       IF o = "ok"
       THEN pc' = "station_decode" /\ UNCHANGED <<ret, failedAt>>
       ELSE StationExcept("fetch")
  /\ UNCHANGED <<prog, argv, full, lat_bounds, lon_bounds, center, temp_file, ds,
                 dsOpen, grbsOpen, figOpen, decode, var, grid, cropped,
                 uncaught, pngSaved, exitCode>>

\* Lines 53-56: Image.open and the conversion to an RGB array.
StationDecode ==
  /\ prog = "station" /\ pc = "station_decode"
  /\ \E o \in IoOutcomes :
       IF o = "ok"
       THEN pc' = "station_figure" /\ UNCHANGED <<ret, failedAt>>
       ELSE StationExcept("decode")
  /\ UNCHANGED <<prog, argv, full, lat_bounds, lon_bounds, center, temp_file, ds,
                 dsOpen, grbsOpen, figOpen, decode, var, grid, cropped,
                 uncaught, pngSaved, exitCode>>

\* Lines 59-67: plt.subplots, imshow, the title.
StationCreateFigure ==
  /\ prog = "station" /\ pc = "station_figure"
  /\ figOpen' = TRUE
  /\ pc' = "station_save"
  /\ UNCHANGED <<prog, argv, full, lat_bounds, lon_bounds, center, temp_file, ds,
                 dsOpen, grbsOpen, decode, var, grid, cropped, ret, failedAt,
                 uncaught, pngSaved, exitCode>>

\* Lines 70-74: plt.savefig, plt.close, return True.
StationSave ==
  /\ prog = "station" /\ pc = "station_save"
  /\ \E o \in IoOutcomes :
       IF o = "ok"
       THEN /\ pngSaved' = TRUE
            /\ figOpen' = FALSE
            /\ ret' = "true"
            /\ pc' = "station_returned"
            /\ UNCHANGED failedAt
       ELSE /\ StationExcept("save")
            /\ UNCHANGED <<pngSaved, figOpen>>
  /\ UNCHANGED <<prog, argv, full, lat_bounds, lon_bounds, center, temp_file, ds,
                 dsOpen, grbsOpen, decode, var, grid, cropped, uncaught,
                 exitCode>>

\* Lines 90-91: success = enhance_weather_gov_radar(...); sys.exit(...)
StationExit ==
  /\ prog = "station" /\ pc = "station_returned"
  /\ exitCode' = IF ret = "true" THEN 0 ELSE 1
  /\ pc' = "exited"
  /\ UNCHANGED <<prog, argv, full, lat_bounds, lon_bounds, center, temp_file, ds,
                 dsOpen, grbsOpen, figOpen, decode, var, grid, cropped, ret,
                 failedAt, uncaught, pngSaved>>

StationNext ==
  \/ StationMain \/ StationFetch \/ StationDecode \/ StationCreateFigure
  \/ StationSave \/ StationExit

(* ------------------------------------------------------------------ *)
(* Specifications                                                      *)
(* ------------------------------------------------------------------ *)

\* One run of one of the three programs on some command line.
Init ==
  /\ \/ prog = "grib" /\ argv \in GribArgvs
     \/ prog = "mrms" /\ argv \in MrmsArgvs
     \/ prog = "station" /\ argv \in StationArgvs
  /\ InitRest

Next == GribNext \/ MrmsNext \/ StationNext

Spec == Init /\ [][Next]_vars

\* Variable resolution on any dataset: the run stands right after a
\* successful primary decode, whose dataset holds up to MaxVars variables
\* (none at all when the decoder's filter matched nothing) under any names
\* of VarNames in any order.
VarNames ==
  { "unknown", "refc", "REFC", "reflectivity", "dBZ", "Reflectivity",
    "latitude", "longitude", "lat", "lon", "x", "y", "time",
    "step", "t2m" }

AllVarLists ==
  UNION { { vl \in [1..k -> VarNames] :
              \A i, j \in 1..k : i # j => vl[i] # vl[j] } : k \in 0..MaxVars }

InitResolve ==
  /\ prog = "grib"
  /\ argv = [paths |-> 2, gz |-> FALSE, nums |-> <<>>, numsOk |-> TRUE]
  /\ pc = "grib_resolve"
  /\ \E vl \in AllVarLists :
       ds = [variables |-> vl,
             lat |-> Array1(GribLatAxis),
             lon |-> Array1(GribLonAxis),
             data |-> DataArray(<<>>, Len(GribLatAxis), Len(GribLonAxis))]
  /\ dsOpen = TRUE
  /\ decode = [primary |-> "ok", fallback |-> "no"]
  /\ lat_bounds = <<>> /\ lon_bounds = <<>> /\ center = NoCenter
  /\ temp_file = "none" /\ grbsOpen = FALSE /\ figOpen = FALSE
  /\ var = NoVar /\ grid = NoGrid /\ full = NoGrid /\ cropped = FALSE
  /\ ret = "none" /\ failedAt = "none" /\ uncaught = FALSE
  /\ pngSaved = FALSE /\ exitCode = -1

SpecResolve == InitResolve /\ [][GribResolveVariable]_vars

\* crop_region on any grid and any window: the run stands in main right
\* after load_grib2 returned, with lat, lon and radius_deg from the command
\* line.
CropCenterLats == {DefaultCenterLat, Deg(46)}

CropCenterLons ==
  { Deg(0 - 180), Deg(0 - 179), Deg(0 - 176), DefaultCenterLon, Deg(0 - 1),
    Deg(0), Deg(1), Deg(4), Deg(176), Deg(179), Deg(180) }

CropRadii == {Deg(1), Deg(3)}

InitCrop ==
  /\ prog = "mrms"
  /\ \E la \in CropCenterLats, lo \in CropCenterLons, r \in CropRadii :
       /\ argv = [paths |-> 2, gz |-> FALSE, nums |-> <<la, lo, r>>,
                  numsOk |-> TRUE]
       /\ center = [lat |-> la, lon |-> lo, radius |-> r]
  /\ pc = "mrms_crop"
  /\ grid \in MrmsGrids
  /\ full = grid
  /\ decode = [primary |-> "ok", fallback |-> "no"]
  /\ ds = NoDataset /\ dsOpen = FALSE
  /\ lat_bounds = <<>> /\ lon_bounds = <<>>
  /\ temp_file = "none" /\ grbsOpen = FALSE /\ figOpen = FALSE
  /\ var = NoVar /\ cropped = FALSE
  /\ ret = "none" /\ failedAt = "none" /\ uncaught = FALSE
  /\ pngSaved = FALSE /\ exitCode = -1

SpecCrop == InitCrop /\ [][MrmsCrop]_vars

(* ------------------------------------------------------------------ *)
(* Claims                                                              *)
(* ------------------------------------------------------------------ *)

\* C1: in process_grib2_file, when the input ends in .gz and the temporary
\* decompressed file has been created, that file no longer exists when the
\* function returns, with True or with False after a failure of the decode,
\* the variable resolution, the crop or the rendering.
C1_TempFileRemovedOnReturn ==
  (prog = "grib" /\ ret # "none" /\ argv.gz /\ temp_file # "none"
     /\ failedAt # "decompress")
    => temp_file = "removed"

\* C2: when a pipeline function has returned or its error has left the
\* entry point, no figure, xarray dataset or pygrib file it opened is still
\* open.
C2_ResourcesReleasedOnEveryExit ==
  (ret # "none" \/ pc = "exited")
    => (~figOpen /\ ~dsOpen /\ ~grbsOpen)

\* C3: in each of the three pipelines an exception raised by decompressing,
\* decoding, resolving, cropping, fetching or rendering is caught at the
\* entry point and becomes a False return and a non-zero exit code; none
\* leaves the entry point uncaught.
C3_ExceptionsCaughtAtEntryPoint ==
  failedAt \notin {"none", "args"}
    => /\ ~uncaught
       /\ ret = "false"
       /\ pc = "exited" => exitCode # 0

\* C4: the generic GRIB command line exits with 0 exactly when
\* process_grib2_file returned True and with 1 on every failure (fewer than
\* two positional arguments, a failure inside the pipeline, crop bounds
\* that are no numbers); it never exits with 0 without a saved PNG.
C4_ExitCodeReflectsSuccess ==
  (prog = "grib" /\ pc = "exited")
    => /\ exitCode \in {0, 1}
       /\ exitCode = 0 <=> ret = "true"
       /\ Argc < 3 => exitCode = 1
       /\ failedAt # "none" => exitCode = 1
       /\ (Argc >= 7 /\ ~argv.numsOk) => exitCode = 1
       /\ exitCode = 0 => pngSaved

\* C4's case: a run with crop bounds that saved its PNG and exited with 0.
C4_Witness ==
  /\ prog = "grib" /\ pc = "exited"
  /\ exitCode = 0 /\ ret = "true" /\ pngSaved /\ cropped

\* C5: in process_grib2_file the fallback decode is attempted if and only
\* if the primary decode failed; a decode failure is reported only after
\* both were attempted and both failed; when either succeeds the run goes on
\* with that dataset.
C5_FallbackIffPrimaryFailed ==
  prog = "grib"
    => /\ pc # "grib_open_fallback"
            => (decode.fallback # "no" <=> decode.primary = "failed")
       /\ failedAt = "decode"
            => (decode.primary = "failed" /\ decode.fallback = "failed")
       /\ (decode.primary = "failed" /\ decode.fallback = "failed")
            => (failedAt = "decode" /\ ret = "false")
       /\ (decode.primary = "ok" \/ decode.fallback = "ok")
            => (failedAt # "decode" /\ ds \in GribDatasets)

\* C5's case: the primary decode failed, the fallback succeeded, and the run
\* went on to save its image.
C5_Witness ==
  /\ prog = "grib"
  /\ decode.primary = "failed" /\ decode.fallback = "ok"
  /\ ret = "true" /\ pngSaved

\* C6: in load_grib2, whenever the pygrib backend yields no grid, because
\* the library is unavailable or because opening or decoding raises, the
\* xarray/cfgrib backend is attempted before the load is given up.
C6_FallbackOnAnyPrimaryFailure ==
  (prog = "mrms" /\ pc = "exited"
     /\ decode.primary \in {"unavailable", "failed"})
    => decode.fallback # "no"

\* C7: variable resolution picks the first name of the priority list
\* (unknown, refc, REFC, reflectivity, dBZ, Reflectivity) that the dataset
\* holds; failing that, the dataset's first variable that is none of
\* latitude, longitude, lat, lon, x, y, time; failing that, the pipeline
\* fails with an error that lists every variable.  A coordinate name is
\* never chosen.
C7_Priority ==
  <<"unknown", "refc", "REFC", "reflectivity", "dBZ", "Reflectivity">>

C7_Coordinates == {"latitude", "longitude", "lat", "lon", "x", "y", "time"}

C7_VariableResolution ==
  (prog = "grib" /\ pc # "grib_resolve"
     /\ (decode.primary = "ok" \/ decode.fallback = "ok"))
    => LET vl == ds.variables
           present == {i \in 1..Len(C7_Priority) :
                         \E k \in 1..Len(vl) : vl[k] = C7_Priority[i]}
           plain == {k \in 1..Len(vl) : vl[k] \notin C7_Coordinates}
       IN /\ present # {}
               => /\ ~var.raised
                  /\ \E i \in present :
                       /\ var.name = C7_Priority[i]
                       /\ \A j \in present : i <= j
          /\ (present = {} /\ plain # {})
               => /\ ~var.raised
                  /\ \E k \in plain :
                       /\ var.name = vl[k]
                       /\ \A j \in plain : k <= j
          /\ (present = {} /\ plain = {})
               => /\ var.raised
                  /\ var.listed = vl
                  /\ failedAt = "variable"
                  /\ ret = "false"
          /\ ~var.raised => var.name \notin C7_Coordinates

\* C7's case: no priority name, coordinates ahead of the first data
\* variable, which is the one chosen.
C7_Witness ==
  /\ prog = "grib" /\ pc = "grib_extract"
  /\ ds.variables = <<"time", "t2m", "step">>
  /\ var.name = "t2m"

\* The cells (tags of the decoded data) an array holds.
CellsOf(a) ==
  IF Ndim(a) = 1 THEN {a.v[i] : i \in 1..Len(a.v)}
  ELSE UNION { {a.v[r][c] : c \in 1..Len(a.v[r])} : r \in 1..Len(a.v) }

\* The values of a coordinate array.
ValuesOf(a) == CellsOf(a)

\* center_lon of -180..180 in the 0-360 convention.
C8_Mod360(lon) == IF lon < 0 THEN lon + Deg(360) ELSE lon

C8_Rows ==
  {r \in 1..full.lats.shape[1] :
     /\ full.lats.v[r][1] >= center.lat - center.radius
     /\ full.lats.v[r][1] <= center.lat + center.radius}

C8_Cols ==
  {c \in 1..full.lons.shape[2] :
     /\ full.lons.v[1][c] >= C8_Mod360(center.lon) - center.radius
     /\ full.lons.v[1][c] <= C8_Mod360(center.lon) + center.radius}

\* C8: crop_region on a 2-D grid with 0-360 longitudes keeps exactly the
\* rows whose first-column latitude lies in [center_lat - radius,
\* center_lat + radius] and exactly the columns whose first-row longitude
\* lies in [(center_lon mod 360) - radius, (center_lon mod 360) + radius],
\* in their order; with center_lon = -121.969814 and radius 3 a column at
\* longitude 240 is kept and a column at longitude 250 is dropped.
C8_CropKeepsExactlyTheWindow ==
  (prog = "mrms" /\ cropped)
    => /\ grid.data.shape = <<Cardinality(C8_Rows), Cardinality(C8_Cols)>>
       /\ grid.lats.shape = grid.data.shape
       /\ grid.lons.shape = grid.data.shape
       /\ CellsOf(grid.data) = {<<r, c>> : r \in C8_Rows, c \in C8_Cols}
       /\ \A i \in 1..Len(grid.data.v) :
            /\ \A j \in 1..Len(grid.data.v[i]) :
                 /\ grid.lats.v[i][j] =
                      full.lats.v[grid.data.v[i][j][1]][grid.data.v[i][j][2]]
                 /\ grid.lons.v[i][j] \in
                      { full.lons.v[grid.data.v[i][j][1]][grid.data.v[i][j][2]],
                        full.lons.v[grid.data.v[i][j][1]][grid.data.v[i][j][2]]
                          - Deg(360) }
            /\ \A j \in 1..(Len(grid.data.v[i]) - 1) :
                 /\ grid.data.v[i][j][1] = grid.data.v[i][j + 1][1]
                 /\ grid.data.v[i][j][2] < grid.data.v[i][j + 1][2]
            /\ (i > 1 /\ grid.data.shape[2] > 0)
                 => grid.data.v[i - 1][1][1] < grid.data.v[i][1][1]
       /\ (center.lon = -121969814 /\ center.radius = Deg(3))
            => \A c \in 1..full.lons.shape[2] :
                 /\ full.lons.v[1][c] = Deg(240) => c \in C8_Cols
                 /\ full.lons.v[1][c] = Deg(250) => c \notin C8_Cols

\* C8's case: the default event longitude with radius 3 on a grid that has
\* a column at 240 and one at 250; the crop kept the first and dropped the
\* second.
C8_Witness ==
  /\ prog = "mrms" /\ cropped
  /\ center.lon = -121969814 /\ center.radius = Deg(3)
  /\ FirstRow(full.lons) = <<Deg(181), Deg(240), Deg(250)>>
  /\ grid.data.shape[1] > 0
  /\ {cell[2] : cell \in CellsOf(grid.data)} = {2}

\* A 0-360 longitude read in the -180..180 convention.
C9_Standard(lon) == IF lon > Deg(180) THEN lon - Deg(360) ELSE lon

C9_Abs(x) == IF x < 0 THEN 0 - x ELSE x

\* The cells of the decoded grid that lie in the window center +/- radius
\* when the grid is read in the -180..180 convention.
C9_StandardSelection ==
  { <<r, c>> : r \in 1..full.lats.shape[1], c \in 1..full.lats.shape[2] } \cap
  { cell \in CellsOf(full.data) :
      /\ C9_Abs(full.lats.v[cell[1]][cell[2]] - center.lat) <= center.radius
      /\ C9_Abs(C9_Standard(full.lons.v[cell[1]][cell[2]]) - center.lon)
           <= center.radius }

C9_Conclusion ==
  /\ \A x \in ValuesOf(grid.lons) :
       /\ x >= Deg(0 - 180) /\ x <= Deg(180)
       /\ C9_Abs(x - center.lon) <= center.radius
  /\ \A y \in ValuesOf(grid.lats) : C9_Abs(y - center.lat) <= center.radius
  /\ CellsOf(grid.data) = C9_StandardSelection

\* C9 as claimed: for every center_lon in -180..180, every radius and every
\* 0-360 grid, the coordinates crop_region returns lie in -180..180 and
\* within radius_deg of the caller's center, and the cells returned are the
\* cells that center +/- radius selects in the -180..180 convention.
C9_CropCoversOnlyTheWindow ==
  (prog = "mrms" /\ cropped) => C9_Conclusion

\* The window lies strictly inside one hemisphere: it touches neither the
\* prime meridian nor the antimeridian.
C9_OneHemisphere ==
  \/ /\ center.lon - center.radius > Deg(0 - 180)
     /\ center.lon + center.radius < 0
  \/ /\ center.lon - center.radius > 0
     /\ center.lon + center.radius < Deg(180)

\* Every row of the grid has the first row's longitudes and every column
\* the first column's latitudes (a regular lat/lon mesh).
C9_Rectilinear ==
  \A r \in 1..full.lats.shape[1], c \in 1..full.lats.shape[2] :
    /\ full.lats.v[r][c] = full.lats.v[r][1]
    /\ full.lons.v[r][c] = full.lons.v[1][c]

\* C9 as amended: the same, for a window strictly inside one hemisphere
\* on a regular (rectilinear) 0-360 grid.
C9_CropCoversOnlyTheWindowInOneHemisphere ==
  (prog = "mrms" /\ cropped /\ C9_OneHemisphere /\ C9_Rectilinear)
    => C9_Conclusion

\* C9's case: a window in the western hemisphere on a regular grid, of
\* which the crop returned the column at 240 as -120.
C9_Witness ==
  /\ prog = "mrms" /\ cropped /\ C9_OneHemisphere /\ C9_Rectilinear
  /\ center.lon = DefaultCenterLon /\ center.radius = Deg(3)
  /\ FirstRow(full.lons) = <<Deg(1), Deg(240), Deg(359)>>
  /\ Size(grid.data) > 0
  /\ ValuesOf(grid.lons) = {Deg(0 - 120)}

\* The distance of two longitudes around the circle.
C10_LonDistance(a, b) ==
  LET d == C9_Abs(a - b) % Deg(360)
  IN IF d > Deg(180) THEN Deg(360) - d ELSE d

\* The requested region holds no point of the decoded grid: no latitude of
\* the grid is in the region's latitudes, or no longitude in its longitudes.
C10_RegionOutsideGrid ==
  IF prog = "mrms"
  THEN \/ \A y \in ValuesOf(full.lats) :
            C9_Abs(y - center.lat) > center.radius
       \/ \A x \in ValuesOf(full.lons) :
            C10_LonDistance(x, center.lon) > center.radius
  ELSE /\ lat_bounds # <<>> /\ lon_bounds # <<>>
       /\ \/ \A y \in ValuesOf(full.lats) :
               y < lat_bounds[1] \/ y > lat_bounds[2]
          \/ \A x \in ValuesOf(full.lons) :
               x < lon_bounds[1] \/ x > lon_bounds[2]

\* C10: in both cropping pipelines a crop region entirely outside the
\* grid's coverage yields a zero-size cropped array, and the run then ends
\* with an (empty) plot saved or with a reported failure (False, exit code
\* 1), never through an unhandled exception.
C10_EmptyCropNeverUnhandled ==
  (prog \in {"grib", "mrms"} /\ cropped /\ C10_RegionOutsideGrid)
    => /\ Size(grid.data) = 0
       /\ pc = "exited"
            => /\ ~uncaught
               /\ pngSaved \/ (ret = "false" /\ exitCode = 1)

\* The rows and the columns of the input grid whose latitude, or longitude,
\* lies in the requested range: those of the box for the generic pipeline's
\* 1-D coordinate vectors, those of the window by the reference column and
\* row for the MRMS pipeline.
C11_RowsInRange ==
  IF prog = "mrms" THEN C8_Rows
  ELSE {r \in 1..full.lats.shape[1] :
          /\ full.lats.v[r] >= lat_bounds[1]
          /\ full.lats.v[r] <= lat_bounds[2]}

C11_ColsInRange ==
  IF prog = "mrms" THEN C8_Cols
  ELSE {c \in 1..full.lons.shape[1] :
          /\ full.lons.v[c] >= lon_bounds[1]
          /\ full.lons.v[c] <= lon_bounds[2]}

\* The cells <<r, c>> of the input grid for which both the latitude and
\* the longitude condition hold.
C11_CellsInRange ==
  IF prog = "grib" /\ Ndim(full.lats) = 2
  THEN {rc \in (1..full.lats.shape[1]) \X (1..full.lats.shape[2]) :
          /\ full.lats.v[rc[1]][rc[2]] >= lat_bounds[1]
          /\ full.lats.v[rc[1]][rc[2]] <= lat_bounds[2]
          /\ full.lons.v[rc[1]][rc[2]] >= lon_bounds[1]
          /\ full.lons.v[rc[1]][rc[2]] <= lon_bounds[2]}
  ELSE C11_RowsInRange \X C11_ColsInRange

\* The shape of the cropped reflectivity matches the cropped coordinates.
C11_ShapesMatch ==
  IF Ndim(full.lats) = 1
  THEN /\ grid.lats.shape = <<Cardinality(C11_RowsInRange)>>
       /\ grid.lons.shape = <<Cardinality(C11_ColsInRange)>>
       /\ grid.data.shape = <<Cardinality(C11_RowsInRange),
                              Cardinality(C11_ColsInRange)>>
  ELSE /\ grid.lats.shape = grid.data.shape
       /\ grid.lons.shape = grid.data.shape

\* The cropped reflectivity holds exactly the cells in range.
C11_ExactCells ==
  CellsOf(grid.data) = {full.data.v[rc[1]][rc[2]] : rc \in C11_CellsInRange}

\* No dimension of the cropped reflectivity is larger than in the input.
C11_NoLarger ==
  \A d \in 1..Ndim(grid.data) : grid.data.shape[d] <= full.data.shape[d]

\* C11: after any crop step (the box crop of the generic pipeline with 1-D
\* or with 2-D coordinates, the radius crop of the MRMS pipeline) the
\* cropped reflectivity is a 2-D grid whose shape matches the cropped
\* coordinates (1-D vectors: rows = latitude samples in range, columns =
\* longitude samples in range; 2-D grids: identical shapes), it holds
\* exactly the cells for which both conditions hold, and no dimension is
\* larger than in the input grid.
C11_CropIsMatching2DGrid ==
  (prog \in {"grib", "mrms"} /\ cropped)
    => /\ Ndim(grid.data) = 2
       /\ C11_ShapesMatch
       /\ C11_ExactCells
       /\ C11_NoLarger

\* The generic pipeline has taken the data and the coordinates out of the
\* dataset (the collapse step is behind it).
C12_Extracted == prog = "grib" /\ full # NoGrid

\* C12: in the generic pipeline, for every decoded data array with more
\* than two dimensions the collapse step yields a 2-D grid before masking,
\* cropping and plotting: index 0 of the leading dimension when that has
\* length 1, the last index otherwise; the array used downstream has
\* exactly two dimensions, the data's trailing two.
C12_CollapseYields2DGrid ==
  (C12_Extracted /\ Ndim(ds.data) > 2)
    => /\ full.data.v = IF ds.data.shape[1] = 1 THEN ds.data.v[1]
                        ELSE ds.data.v[ds.data.shape[1]]
       /\ Ndim(full.data) = 2
       /\ full.data.shape = <<ds.data.shape[Ndim(ds.data) - 1],
                              ds.data.shape[Ndim(ds.data)]>>
       /\ ~cropped => grid.data = full.data

====
